---- MODULE Spec2Model ----
(***************************************************************************)
(* Far-field directivity engine of the 3D phased-array plotter:           *)
(*   src/phased_array.py        PhasedArray3D, azel_to_thetaphi,          *)
(*                              thetaphi_to_dir                           *)
(*   src/plotting.py            scale_to_01, msphere_to_mpattern          *)
(*   src/gui_plotter_animate.py the beam-scanning sweep                   *)
(*                                                                         *)
(* Numbers.  Lengths are counted in units of the sensor pitch of the       *)
(* scripts (0.125), so sensor coordinates and wavelengths are integers.    *)
(* A direction is an integer triple d standing for the vector d/3; it is   *)
(* a unit vector iff d.d = 9.  Angles are counted in quarter turns (pi/2). *)
(* With wavelengths 1 and 2 every phase 2*pi/wavelength * pos.dir is a     *)
(* whole number of sixths of a turn, so every complex exponential is a     *)
(* sixth root of unity and every sum of them is an Eisenstein integer      *)
(* a + b*w, w = exp(2*pi*i/3), kept exactly as the pair <<a, b>>.          *)
(* Floating-point rounding is not modelled: equal pairs are equal complex  *)
(* numbers.                                                                *)
(***************************************************************************)
EXTENDS Integers, Sequences, FiniteSets, TLC

---------------------------------------------------------------------------
(* Python values: None, a missing attribute, and a present value.          *)

None == <<>>
Missing == <<>>
Some(x) == <<x>>
Val(o) == o[1]

---------------------------------------------------------------------------
(* Complex numbers met by the engine: Eisenstein integers <<a, b>>.        *)

CZero == <<0, 0>>
CAdd(x, y) == <<x[1] + y[1], x[2] + y[2]>>
\* (a + b w)(c + d w) with w^2 = -1 - w
CMul(x, y) == <<x[1] * y[1] - x[2] * y[2],
                x[1] * y[2] + x[2] * y[1] - x[2] * y[2]>>
\* conj(w) = -1 - w
CConj(x) == <<x[1] - x[2], 0 - x[2]>>
\* |a + b w|^2
AbsSq(x) == x[1] * x[1] - x[1] * x[2] + x[2] * x[2]

\* exp(2*pi*i * k / 6)
Cis(k) ==
  CASE k % 6 = 0 -> <<1, 0>>
    [] k % 6 = 1 -> <<1, 1>>
    [] k % 6 = 2 -> <<0, 1>>
    [] k % 6 = 3 -> <<-1, 0>>
    [] k % 6 = 4 -> <<-1, -1>>
    [] OTHER     -> <<0, -1>>

\* np.exp(-2j*np.pi/wavelength * x) for x = dot/3 a length: the phase in
\* sixths of a turn is 6 * (dot/3) / wavelength.
ExpPhase(w, dot) == Cis(0 - ((2 * dot) \div w))

Dot3(p, d) == p[1] * d[1] + p[2] * d[2] + p[3] * d[3]

---------------------------------------------------------------------------
(* Trigonometry on quarter turns.                                          *)

Cos4(q) == CASE q % 4 = 0 -> 1 [] q % 4 = 2 -> -1 [] OTHER -> 0
Sin4(q) == CASE q % 4 = 1 -> 1 [] q % 4 = 3 -> -1 [] OTHER -> 0
\* np.tan: at an odd quarter turn the float result is huge (1.6e16) with the
\* sign of the sine; 1000000 stands for it.
Tan4(q) == Sin4(q) * 1000000
\* np.arccos on {-1, 0, 1}
ArcCos4(c) == CASE c = 1 -> 0 [] c = 0 -> 1 [] OTHER -> 2
\* np.arctan2(y, x) for y zero or huge and x in {-1, 0, 1}
ArcTan2(y, x) ==
  CASE y > 0 -> 1
    [] y < 0 -> -1
    [] x < 0 -> 2
    [] OTHER -> 0

azel_to_thetaphi(az, el) ==
  LET cos_theta == Cos4(el) * Cos4(az)
      theta == ArcCos4(cos_theta)
      phi == ArcTan2(Tan4(el), Sin4(az))
  IN <<theta, phi>>

\* the conversion as it would be with theta measured from the x-y plane
thetaphi_to_dir_from_plane(theta, phi) ==
  <<3 * Cos4(phi) * Cos4(theta), 3 * Sin4(phi) * Cos4(theta), 3 * Sin4(theta)>>

\* one (theta, phi) pair to the direction 3 * (x, y, z)
thetaphi_to_dir(theta, phi) ==
  <<3 * Cos4(phi) * Sin4(theta), 3 * Sin4(phi) * Sin4(theta), 3 * Cos4(theta)>>

---------------------------------------------------------------------------
(* numpy arrays: a 2-D array is its shape and its rows.                    *)

ndarray(rows, ncols) == [shape |-> <<Len(rows), ncols>>, data |-> rows]

\* Sum of f[lo] .. f[hi] of complex numbers (exact, so in any order)
RECURSIVE CSum(_, _, _)
CSum(f, lo, hi) ==
  IF lo > hi THEN CZero
  ELSE IF lo = hi THEN f[lo]
  ELSE LET mid == (lo + hi) \div 2
       IN CAdd(CSum(f, lo, mid), CSum(f, mid + 1, hi))

---------------------------------------------------------------------------
(* The sphere tessellation.  MeshData.sphere belongs to pyqtgraph; its     *)
(* vertex list runs from the north pole (0, 0, 1) ring by ring to the      *)
(* south pole (0, 0, -1) and holds (rows - 1) * cols + 2 unit vectors.     *)
(* The meshes below keep that order and that count with vertices at    *)
(* rational points of the sphere.                                          *)

SphereVerts(nb_t, nb_p) ==
  CASE nb_t = 2 /\ nb_p = 4 ->
         << <<0, 0, 3>>,
            <<3, 0, 0>>, <<0, 3, 0>>, <<-3, 0, 0>>, <<0, -3, 0>>,
            <<0, 0, -3>> >>
    [] nb_t = 3 /\ nb_p = 4 ->
         << <<0, 0, 3>>,
            <<2, 2, 1>>, <<-2, 2, 1>>, <<-2, -2, 1>>, <<2, -2, 1>>,
            <<2, 2, -1>>, <<-2, 2, -1>>, <<-2, -2, -1>>, <<2, -2, -1>>,
            <<0, 0, -3>> >>
    [] OTHER ->
         << <<0, 0, 3>>,
            <<2, 1, 2>>, <<1, 2, 2>>, <<-1, 2, 2>>, <<-2, 1, 2>>,
            <<-2, -1, 2>>, <<-1, -2, 2>>, <<1, -2, 2>>, <<2, -1, 2>>,
            <<2, 2, 1>>, <<-2, 2, 1>>, <<-2, -2, 1>>, <<2, -2, 1>>,
            <<3, 0, 0>>, <<0, 3, 0>>, <<-3, 0, 0>>, <<0, -3, 0>>,
            <<2, 2, -1>>, <<-2, 2, -1>>, <<-2, -2, -1>>, <<2, -2, -1>>,
            <<2, 1, -2>>, <<1, 2, -2>>, <<-1, 2, -2>>, <<-2, 1, -2>>,
            <<-2, -1, -2>>, <<-1, -2, -2>>, <<1, -2, -2>>, <<2, -1, -2>>,
            <<0, 0, -3>> >>

---------------------------------------------------------------------------
VARIABLES
  \* PhasedArray3D attributes
  pos_sensor,    \* None, or Some(ndarray)
  wavelength,    \* None, or Some(wavelength of the steering-vector cache)
  n_sensor,      \* Missing, or Some(int)
  nb,            \* Missing, or Some(<<nb_theta, nb_phi>>)
  dir_grid,      \* Missing, or Some(sequence of directions); verts is the same array
  dir_ref,       \* Missing, or Some(direction)
  steer_vecs,    \* Missing, or Some(N x M matrix)
  src,           \* Missing, or Some(N-vector)
  pattern_tx,    \* Missing, or Some(M-vector)
  md,            \* PlotterArray3D.md: Missing, or Some(mesh of the pattern)
  \* outcome of the last call
  err,           \* "none", or the name of the exception it raised
  ret,           \* Missing, or Some(returned value)
  \* instrumentation of the engine
  last,          \* the last call and its arguments
  tracing,       \* whether calls are recorded
  calls,         \* the directivity_pattern_tx calls that returned, in order,
                 \* while geometry and grid stayed as first set
  regeom,        \* create_geom was called again after a call had returned
  remesh,        \* create_sphere_mesh_uv was called again after a call had returned
  \* gui_plotter_animate.py
  pc,            \* position in the script
  az_scan, el_scan,
  i, j,          \* positions in el_scan and az_scan (from 0)
  beamscan,
  \* a call of scale_to_01
  sc_args        \* its arguments

engine_vars == <<pos_sensor, wavelength, n_sensor, nb, dir_grid, dir_ref,
                 steer_vecs, src, pattern_tx>>
call_vars == <<err, ret, last, tracing, calls, regeom, remesh>>
script_vars == <<pc, az_scan, el_scan, i, j, beamscan>>
vars == <<engine_vars, md, call_vars, script_vars, sc_args>>

NoCall == [op |-> "none", pos |-> None, w |-> 0, theta |-> 0, phi |-> 0]
NoArgs == [v |-> <<>>, v_min |-> 0, v_max |-> 0, clipping |-> TRUE]

\* __init__ as it would be with an empty array for the geometry not yet given
EngineInitEmptyGeometry ==
  /\ pos_sensor = Some([shape |-> <<0, 3>>, data |-> <<>>])
  /\ wavelength = None
  /\ n_sensor = Missing
  /\ nb = Missing
  /\ dir_grid = Missing
  /\ dir_ref = Missing
  /\ steer_vecs = Missing
  /\ src = Missing
  /\ pattern_tx = Missing

\* PhasedArray3D.__init__
EngineInit ==
  /\ pos_sensor = None
  /\ wavelength = None
  /\ n_sensor = Missing
  /\ nb = Missing
  /\ dir_grid = Missing
  /\ dir_ref = Missing
  /\ steer_vecs = Missing
  /\ src = Missing
  /\ pattern_tx = Missing

CallInit ==
  /\ err = "none"
  /\ ret = Missing
  /\ last = NoCall
  /\ calls = <<>>
  /\ regeom = FALSE
  /\ remesh = FALSE

ScriptIdle ==
  /\ pc = "idle"
  /\ az_scan = <<>>
  /\ el_scan = <<>>
  /\ i = 0
  /\ j = 0
  /\ beamscan = [bp |-> <<>>, verts |-> <<>>, src |-> <<>>]

Init ==
  /\ EngineInit
  /\ md = Missing
  /\ CallInit
  /\ tracing = TRUE
  /\ ScriptIdle
  /\ sc_args = NoArgs

---------------------------------------------------------------------------
(* create_geom                                                             *)

\* the assert as it would be with >= for ==
ShapeOkAtLeast3(arr) == arr.shape[2] >= 3

\* the assert of create_geom: self.pos_sensor.shape[1] == 3
ShapeOk(arr) == arr.shape[2] = 3

create_geom(pos) ==
  /\ pos_sensor' = Some(pos)
  /\ IF ShapeOk(pos)
     THEN /\ n_sensor' = Some(pos.shape[1])
          /\ err' = "none"
     ELSE /\ n_sensor' = n_sensor
          /\ err' = "AssertionError"
  /\ ret' = Missing
  /\ last' = [NoCall EXCEPT !.op = "create_geom", !.pos = Some(pos)]
  /\ regeom' = (regeom \/ calls # <<>>)
  /\ calls' = <<>>
  /\ UNCHANGED <<wavelength, nb, dir_grid, dir_ref, steer_vecs, src,
                 pattern_tx, md, tracing, remesh>>

---------------------------------------------------------------------------
(* create_sphere_mesh_uv                                                   *)

create_sphere_mesh_uv(nb_theta, nb_phi) ==
  /\ nb' = Some(<<nb_theta, nb_phi>>)
  /\ dir_grid' = Some(SphereVerts(nb_theta, nb_phi))
  /\ err' = "none"
  /\ ret' = Missing
  /\ last' = [NoCall EXCEPT !.op = "create_sphere_mesh_uv"]
  /\ remesh' = (remesh \/ calls # <<>>)
  /\ calls' = <<>>
  /\ UNCHANGED <<pos_sensor, wavelength, n_sensor, dir_ref, steer_vecs, src,
                 pattern_tx, md, tracing, regeom>>

---------------------------------------------------------------------------
(* directivity_pattern_tx                                                  *)

\* line 99 as it would be without the test, and with < for !=
NeedRebuildAlways(cached, w) == TRUE
NeedRebuildWhenSmaller(cached, w) == cached = None \/ Val(cached) < w

\* line 99: self.wavelength != wavelength
NeedRebuild(cached, w) == cached # Some(w)

\* np.exp(-2j*np.pi/wavelength * pos @ dir_grid.T): an N x M matrix
SteerVecs(w, pos, grid) ==
  [shape |-> <<pos.shape[1], Len(grid)>>,
   data |-> [n \in 1..pos.shape[1] |->
               [m \in 1..Len(grid) |-> ExpPhase(w, Dot3(pos.data[n], grid[m]))]]]

\* np.exp(-2j*np.pi/wavelength * pos @ dir_ref): an N-vector
Excitation(w, pos, dref) ==
  [n \in 1..pos.shape[1] |-> ExpPhase(w, Dot3(pos.data[n], dref))]

\* steer_vecs.T.conj() @ src: an M-vector
ArrayFactor(sv, s) ==
  [m \in 1..sv.shape[2] |->
     CSum([n \in 1..sv.shape[1] |-> CMul(CConj(sv.data[n][m]), s[n])],
          1, sv.shape[1])]

\* The attributes of an instance that the method reads.
Self == [pos_sensor |-> pos_sensor, wavelength |-> wavelength,
         dir_grid |-> dir_grid, steer_vecs |-> steer_vecs, src |-> src,
         pattern_tx |-> pattern_tx]

\* What one call does to the instance self: the attributes after it, the
\* exception it raises ("none": it returns pattern_tx) and whether it
\* rebuilt the steering vectors.
Directivity(self, w, theta_ref, phi_ref) ==
  LET dref == thetaphi_to_dir(theta_ref, phi_ref)
      need == NeedRebuild(self.wavelength, w)
      \* the operands of the products, in the order Python meets them
      operandErr == IF self.pos_sensor = None THEN "TypeError"
                    ELSE IF ~need THEN "none"
                    ELSE IF self.dir_grid = Missing THEN "AttributeError"
                    ELSE "none"
      shapeErr == IF Val(self.pos_sensor).shape[2] # 3 THEN "ValueError"
                  ELSE "none"
      err1 == IF operandErr # "none" THEN operandErr ELSE shapeErr
      rebuilt == need /\ err1 = "none"
      sv == IF rebuilt
            THEN Some(SteerVecs(w, Val(self.pos_sensor), Val(self.dir_grid)))
            ELSE self.steer_vecs
      s == Excitation(w, Val(self.pos_sensor), dref)
      err2 == IF err1 # "none" THEN err1
              ELSE IF sv = Missing THEN "AttributeError"
              ELSE IF Val(sv).shape[1] # Len(s) THEN "ValueError"
              ELSE "none"
  IN [dir_ref |-> Some(dref),
      rebuilt |-> rebuilt,
      steer_vecs |-> sv,
      wavelength |-> IF rebuilt THEN Some(w) ELSE self.wavelength,
      src |-> IF err1 = "none" THEN Some(s) ELSE self.src,
      pattern_tx |-> IF err2 = "none" THEN Some(ArrayFactor(Val(sv), s))
                     ELSE self.pattern_tx,
      err |-> err2]

directivity_pattern_tx(w, theta_ref, phi_ref) ==
  LET r == Directivity(Self, w, theta_ref, phi_ref)
  IN /\ dir_ref' = r.dir_ref
     /\ steer_vecs' = r.steer_vecs
     /\ wavelength' = r.wavelength
     /\ src' = r.src
     /\ pattern_tx' = r.pattern_tx
     /\ err' = r.err
     /\ ret' = IF r.err = "none" THEN r.pattern_tx ELSE Missing
     /\ last' = [NoCall EXCEPT !.op = "directivity_pattern_tx", !.w = w,
                               !.theta = theta_ref, !.phi = phi_ref]
     /\ calls' = IF tracing /\ r.err = "none" /\ ~regeom /\ ~remesh
                 THEN Append(calls, [w |-> w, theta |-> theta_ref,
                                     phi |-> phi_ref, cached |-> wavelength,
                                     rebuilt |-> r.rebuilt,
                                     steer_vecs |-> Val(r.steer_vecs),
                                     pattern |-> Val(r.pattern_tx),
                                     src |-> Val(r.src)])
                 ELSE calls
     /\ UNCHANGED <<pos_sensor, n_sensor, nb, dir_grid, md, tracing, regeom,
                    remesh>>

---------------------------------------------------------------------------
(* Floats met by the normalizer: a rational n/d in lowest terms with d > 0, *)
(* plus or minus infinity, or NaN.                                         *)

RECURSIVE Gcd(_, _)
Gcd(a, b) == IF b = 0 THEN a ELSE Gcd(b, a % b)
Abs(x) == IF x < 0 THEN 0 - x ELSE x

NaN == [k |-> "nan", n |-> 0, d |-> 0]
Inf(sign) == [k |-> "inf", n |-> sign, d |-> 0]
Num(n, d) ==
  LET g == Gcd(Abs(n), Abs(d))
      sg == IF d < 0 THEN -1 ELSE 1
  IN [k |-> "num", n |-> sg * (n \div g), d |-> sg * (d \div g)]
Sign(x) == IF x > 0 THEN 1 ELSE IF x < 0 THEN -1 ELSE 0

\* x - c for a finite integer c
FSub(x, c) == IF x.k = "num" THEN Num(x.n - c * x.d, x.d) ELSE x

\* x / c for a finite integer c, as numpy divides: a zero divisor gives
\* nan for 0/0 and an infinity of the sign of the numerator otherwise, with
\* a RuntimeWarning and no exception.
FDiv(x, c) ==
  CASE x.k = "nan" -> NaN
    [] x.k = "inf" -> IF c < 0 THEN Inf(0 - x.n) ELSE Inf(x.n)
    [] c = 0 -> IF x.n = 0 THEN NaN ELSE Inf(Sign(x.n))
    [] OTHER -> Num(x.n, x.d * c)

\* x <= y for floats; every comparison with NaN is false
FLe(x, y) ==
  CASE x.k = "nan" \/ y.k = "nan" -> FALSE
    [] x.k = "inf" -> x.n < 0 \/ (y.k = "inf" /\ y.n > 0)
    [] y.k = "inf" -> y.n > 0
    [] OTHER -> x.n * y.d <= y.n * x.d

\* np.clip as it would be with the upper limit alone
Clip01UpperOnly(x) ==
  CASE x.k = "nan" -> NaN
    [] ~FLe(x, Num(1, 1)) -> Num(1, 1)
    [] OTHER -> x

\* np.clip(x, 0, 1) of one element: NaN passes through
Clip01(x) ==
  CASE x.k = "nan" -> NaN
    [] ~FLe(Num(0, 1), x) -> Num(0, 1)
    [] ~FLe(x, Num(1, 1)) -> Num(1, 1)
    [] OTHER -> x

---------------------------------------------------------------------------
(* plotting.py                                                             *)

scale_to_01(v, v_min, v_max, clipping) ==
  LET v_out == [k \in 1..Len(v) |-> FDiv(FSub(v[k], v_min), v_max - v_min)]
  IN IF clipping = TRUE THEN [k \in 1..Len(v) |-> Clip01(v_out[k])] ELSE v_out

\* the assert of msphere_to_mpattern: np.all((radius >= 0) & (radius <= 1))
RadiusOk(radius) ==
  \A k \in 1..Len(radius) :
    FLe(Num(0, 1), radius[k]) /\ FLe(radius[k], Num(1, 1))

\* x * (a/3) for a float x and a coordinate a/3 of a direction
FMul3(x, a) ==
  CASE x.k = "nan" -> NaN
    [] x.k = "inf" -> IF a = 0 THEN NaN ELSE Inf(x.n * Sign(a))
    [] OTHER -> Num(x.n * a, x.d * 3)

\* verts * radius[:, np.newaxis]
ScaleVerts(verts, radius) ==
  [k \in 1..Len(radius) |->
     <<FMul3(radius[k], verts[k][1]), FMul3(radius[k], verts[k][2]),
       FMul3(radius[k], verts[k][3])>>]

\* msphere_to_mpattern up to the colours, which are pyqtgraph's: the
\* exception raised and the vertexes of the mesh returned.
msphere_to_mpattern(verts, radius) ==
  IF RadiusOk(radius)
  THEN [err |-> "none", mesh |-> Some(ScaleVerts(verts, radius))]
  ELSE [err |-> "AssertionError", mesh |-> Missing]

---------------------------------------------------------------------------
(* A call of scale_to_01 followed, as in the scripts, by one of            *)
(* msphere_to_mpattern on its result.                                      *)

MaxArr == 2

Special == {NaN, Inf(1), Inf(-1)}
ScaleValues == {Num(n, 1) : n \in {-45, -30, -20, -10, -1, 0, 1, 5}} \cup Special
ScaleLimits == {-30, -1, 0, 2}
ScaleArrays == UNION {[1..n -> ScaleValues] : n \in 1..MaxArr}

InitScale ==
  /\ EngineInit
  /\ md = Missing
  /\ CallInit
  /\ tracing = FALSE
  /\ az_scan = <<>> /\ el_scan = <<>> /\ i = 0 /\ j = 0
  /\ beamscan = [bp |-> <<>>, verts |-> <<>>, src |-> <<>>]
  /\ pc = "scale"
  /\ sc_args \in [v : ScaleArrays, v_min : ScaleLimits, v_max : ScaleLimits,
                  clipping : BOOLEAN]

CallScale ==
  /\ pc = "scale"
  /\ ret' = Some(scale_to_01(sc_args.v, sc_args.v_min, sc_args.v_max,
                             sc_args.clipping))
  /\ err' = "none"
  /\ last' = [NoCall EXCEPT !.op = "scale_to_01"]
  /\ pc' = "scaled"
  /\ UNCHANGED <<engine_vars, md, tracing, calls, regeom, remesh, az_scan,
                 el_scan, i, j, beamscan, sc_args>>

CallMesh ==
  /\ pc = "scaled"
  /\ LET verts == SubSeq(SphereVerts(2, 4), 1, Len(Val(ret)))
         r == msphere_to_mpattern(verts, Val(ret))
     IN /\ err' = r.err
        /\ md' = r.mesh
  /\ last' = [NoCall EXCEPT !.op = "msphere_to_mpattern"]
  /\ pc' = "meshed"
  /\ UNCHANGED <<engine_vars, ret, tracing, calls, regeom, remesh, az_scan,
                 el_scan, i, j, beamscan, sc_args>>

NextScale == CallScale \/ CallMesh

SpecScale == InitScale /\ [][NextScale]_vars

---------------------------------------------------------------------------
(* gui_plotter_animate.py: the sweep that collects the beams.              *)

nside == 9
\* wavelength = 0.25, in units of the pitch 0.125 of the 9 x 9 grid: the
\* sensors are spaced at half the wavelength
script_wavelength == 2
range_db == 30

\* np.mgrid[-0.5:0.5:9j, -0.5:0.5:9j] stacked with zeros: x runs slowest
pos_usa ==
  ndarray([k \in 1..(nside * nside) |->
             <<((k - 1) \div nside) - ((nside - 1) \div 2),
               ((k - 1) % nside) - ((nside - 1) \div 2), 0>>], 3)

RECURSIVE Pow10(_)
Pow10(k) == IF k = 0 THEN 1 ELSE 10 * Pow10(k - 1)
CeilDiv(a, b) == (a + b - 1) \div b

\* 20 * np.log10(np.abs(z / n)) of one element, rounded down to a multiple
\* of 5 dB and kept within [-40, 0]: -5k for the least k in 0..8 with
\* (|z|/n)^4 * 10^k >= 1.  log10(0) is -inf; 0/0 is nan.
Decibel(z, n) ==
  IF n = 0 THEN (IF AbsSq(z) = 0 THEN NaN ELSE Inf(1))
  ELSE IF AbsSq(z) = 0 THEN Inf(-1)
  ELSE LET q == AbsSq(z) * AbsSq(z)
           r == n * n * n * n
           ks == {k \in 0..8 : q >= CeilDiv(r, Pow10(k))}
       IN Num(-5 * (CHOOSE k \in ks \cup {8} :
                      \A h \in ks \cup {8} : k <= h), 1)

\* list.insert(0, x) for list.append(x)
CollectFront(list, x) == <<x>> \o list

\* list.append
Collect(list, x) == Append(list, x)

InitScan ==
  /\ EngineInit
  /\ md = Missing
  /\ CallInit
  /\ tracing = FALSE
  /\ pc = "start"
  /\ i = 0
  /\ j = 0
  /\ beamscan = [bp |-> <<>>, verts |-> <<>>, src |-> <<>>]
  /\ sc_args = NoArgs

\* line 32
ScriptCreateGeom ==
  /\ pc = "start"
  /\ create_geom(pos_usa)
  /\ pc' = IF ShapeOk(pos_usa) THEN "geom" ELSE "failed"
  /\ UNCHANGED <<az_scan, el_scan, i, j, beamscan, sc_args>>

\* line 33; the mesh for (180, 360) is the finest of SphereVerts
ScriptCreateMesh ==
  /\ pc = "geom"
  /\ create_sphere_mesh_uv(180, 360)
  /\ pc' = "scan"
  /\ UNCHANGED <<az_scan, el_scan, i, j, beamscan, sc_args>>

\* lines 39-49: one pass of the inner loop, for el_scan[i] and az_scan[j]
ScanStep ==
  /\ pc = "scan"
  /\ i < Len(el_scan)
  /\ LET el_ == el_scan[i + 1]
         az_ == az_scan[j + 1]
         angs_ == azel_to_thetaphi(az_, el_)
     IN directivity_pattern_tx(script_wavelength, angs_[1], angs_[2])
  /\ IF err' = "none"
     THEN LET bp_ == Val(ret')
              bp_db == [m \in 1..Len(bp_) |-> Decibel(bp_[m], Val(n_sensor))]
              bp_01_ == scale_to_01(bp_db, 0 - range_db, 0, TRUE)
          IN /\ beamscan' =
                  [bp |-> Collect(beamscan.bp, bp_01_),
                   verts |-> Collect(beamscan.verts,
                                     ScaleVerts(Val(dir_grid), bp_01_)),
                   src |-> Collect(beamscan.src, Val(src'))]
             /\ j' = IF j + 1 < Len(az_scan) THEN j + 1 ELSE 0
             /\ i' = IF j + 1 < Len(az_scan) THEN i ELSE i + 1
             /\ pc' = pc
     ELSE /\ pc' = "failed"
          /\ UNCHANGED <<i, j, beamscan>>
  /\ UNCHANGED <<az_scan, el_scan, sc_args>>

\* lines 51-57: the lists become arrays (the same entries in the same
\* order) and the first beam is drawn: add_plot_beampattern calls
\* msphere_to_mpattern on beamscan["bp"][0]
ScriptPlot ==
  /\ pc = "scan"
  /\ i = Len(el_scan)
  /\ LET r == msphere_to_mpattern(Val(dir_grid), beamscan.bp[1])
     IN /\ err' = r.err
        /\ md' = r.mesh
        /\ pc' = IF r.err = "none" THEN "plotted" ELSE "failed"
  /\ last' = [NoCall EXCEPT !.op = "msphere_to_mpattern"]
  /\ UNCHANGED <<engine_vars, ret, tracing, calls, regeom, remesh, az_scan,
                 el_scan, i, j, beamscan, sc_args>>

MaxScan == 5

\* The sweep grids: the steering commands -1, 0, 1 (quarter turns) taken in
\* turn, azimuth from -1 and elevation from 0, as many as the grid is long.
AzRamp(n) == [k \in 1..n |-> ((k - 1) % 3) - 1]
ElRamp(n) == [k \in 1..n |-> (k % 3) - 1]

SweepInit ==
  /\ InitScan
  /\ az_scan \in {AzRamp(n) : n \in 1..MaxScan}
  /\ el_scan \in {ElRamp(n) : n \in 1..MaxScan}

NextScan == ScriptCreateGeom \/ ScriptCreateMesh \/ ScanStep \/ ScriptPlot

SpecScan == SweepInit /\ [][NextScan]_vars

---------------------------------------------------------------------------
(* The calls a client of the engine makes.                                 *)

MaxCalls == 3

LineX == ndarray(<< <<0, 0, 0>>, <<1, 0, 0>> >>, 3)
LineYZ == ndarray(<< <<0, 0, 0>>, <<0, 1, 1>> >>, 3)
Flat2 == ndarray(<< <<0, 0>>, <<1, 0>> >>, 2)
Wide4 == ndarray(<< <<0, 0, 0, 1>> >>, 4)
Empty3 == ndarray(<< >>, 3)
GeomInputs == {LineX, LineYZ, Flat2, Wide4, Empty3}

MeshInputs == {<<2, 4>>, <<3, 4>>}
Wavelengths == {1, 2}
Thetas == {0, 1}
Phis == {0, 1}

CallCreateGeom ==
  /\ \E pos \in GeomInputs : create_geom(pos)
  /\ UNCHANGED <<script_vars, sc_args>>

CallCreateMesh ==
  /\ \E m \in MeshInputs : create_sphere_mesh_uv(m[1], m[2])
  /\ UNCHANGED <<script_vars, sc_args>>

CallDirectivity ==
  /\ Len(calls) < MaxCalls
  /\ \E w \in Wavelengths, th \in Thetas, ph \in Phis :
       directivity_pattern_tx(w, th, ph)
  /\ UNCHANGED <<script_vars, sc_args>>

Next == CallCreateGeom \/ CallCreateMesh \/ CallDirectivity

Spec == Init /\ [][Next]_vars

---------------------------------------------------------------------------
(* Properties of the engine, checked under Spec.                           *)

Returned == last.op = "directivity_pattern_tx" /\ err = "none"

\* The geometry held is one create_geom accepted.
GeometryHeld == pos_sensor # None /\ ShapeOk(Val(pos_sensor))

\* The instance as a first call finds it after create_geom and
\* create_sphere_mesh_uv with the positions and the grid held now: no cache.
Uncached == [Self EXCEPT !.wavelength = None, !.steer_vecs = Missing,
                         !.src = Missing, !.pattern_tx = Missing]

\* C1: after create_geom replaced the geometry of an engine that has served
\* a call, the next call, also one with the wavelength of the cache, returns
\* the pattern of the positions held now (the direction grid was not set
\* again meanwhile).
C1_CreateGeomInvalidatesCache ==
  (Returned /\ GeometryHeld /\ ~remesh)
    => ret = Directivity(Uncached, last.w, last.theta, last.phi).pattern_tx

\* The calls recorded all share one wavelength.
OneWavelength == \A a, b \in 1..Len(calls) : calls[a].w = calls[b].w
Rebuilds == Cardinality({k \in 1..Len(calls) : calls[k].rebuilt})

\* C2: with geometry and grid fixed, a call rebuilds the steering vectors iff
\* there is no cache yet or the wavelength asked for is not the one of the
\* cache; the cache's wavelength is that of the call before; a call with the
\* wavelength of the call before it rebuilds nothing and leaves the cache as
\* it was; calls that all share one wavelength rebuild exactly once.
C2_RebuildIffWavelengthDiffers ==
  /\ \A k \in 1..Len(calls) :
       calls[k].rebuilt <=> (calls[k].cached = None \/ Val(calls[k].cached) # calls[k].w)
  /\ Len(calls) >= 1 => calls[1].cached = None
  /\ \A k \in 2..Len(calls) :
       /\ calls[k].cached = Some(calls[k - 1].w)
       /\ calls[k].w = calls[k - 1].w
            => ~calls[k].rebuilt /\ calls[k].steer_vecs = calls[k - 1].steer_vecs
  /\ (Len(calls) >= 1 /\ OneWavelength) => Rebuilds = 1

\* Three calls with one wavelength and two steering directions: one rebuild.
C2_Witness ==
  /\ Len(calls) = 3
  /\ OneWavelength
  /\ calls[1].src # calls[2].src
  /\ Rebuilds = 1
  /\ calls[3].steer_vecs = calls[1].steer_vecs

SameArgs(a, b) == a.w = b.w /\ a.theta = b.theta /\ a.phi = b.phi

\* C3: with geometry and grid fixed, any two calls with the same
\* (wavelength, theta_ref, phi_ref) return the same pattern and leave the same
\* src, whatever calls were made before or between them.
C3_SameArgsSameResult ==
  \A a, b \in 1..Len(calls) :
    SameArgs(calls[a], calls[b])
      => calls[a].pattern = calls[b].pattern /\ calls[a].src = calls[b].src

\* The same call twice with a call of another wavelength between them, on a
\* geometry whose patterns for the two wavelengths differ.
C3_Witness ==
  /\ Len(calls) = 3
  /\ SameArgs(calls[1], calls[3])
  /\ calls[2].w # calls[1].w
  /\ calls[2].rebuilt /\ calls[3].rebuilt
  /\ calls[2].steer_vecs # calls[1].steer_vecs

\* The exceptions Python raises when the method meets state not yet set:
\* None as an operand (TypeError), an attribute not yet assigned
\* (AttributeError), and the array a rejected create_geom left (ValueError).
StateError == {"TypeError", "AttributeError", "ValueError"}

\* C6: a call made before create_geom has accepted a geometry or before
\* create_sphere_mesh_uv has set a grid raises at once and returns no
\* pattern: TypeError when no geometry was ever given, AttributeError when
\* only the grid is missing.
C6_CallBeforeSetupFails ==
  (last.op = "directivity_pattern_tx" /\ (n_sensor = Missing \/ nb = Missing))
    => /\ err \in StateError
       /\ ret = Missing
       /\ pattern_tx = Missing
       /\ pos_sensor = None => err = "TypeError"
       /\ (GeometryHeld /\ nb = Missing) => err = "AttributeError"

\* The three cases, each met: the last call failed with only the grid set.
C6_Witness ==
  /\ last.op = "directivity_pattern_tx"
  /\ n_sensor = Missing /\ pos_sensor = None /\ nb # Missing
  /\ err = "TypeError"

\* The failure of the shape assertion of create_geom.
ShapeError == "AssertionError"

\* C8: create_geom raises, in the call itself, whenever the position vectors
\* do not have exactly 3 components.
C8_CreateGeomRejectsBadShape ==
  (last.op = "create_geom" /\ Val(last.pos).shape[2] # 3) => err = ShapeError

C8_Witness ==
  /\ last.op = "create_geom"
  /\ Val(last.pos).shape[2] = 4
  /\ err = ShapeError

\* C10: the geometry held, once set, is non-empty, every position has 3
\* coordinates, and n_sensor is the number of positions held.
C10_GeometryInvariant ==
  pos_sensor # None
    => /\ Val(pos_sensor).shape[1] >= 1
       /\ Val(pos_sensor).shape[2] = 3
       /\ n_sensor = Some(Val(pos_sensor).shape[1])

---------------------------------------------------------------------------
(* Properties of the normalizer, checked under SpecScale.                  *)

Scaled == pc \in {"scaled", "meshed"}
NoNaN(v) == \A k \in 1..Len(v) : v[k] # NaN
InUnit(x) == x.k = "num" /\ 0 <= x.n /\ x.n <= x.d

\* C7: scale_to_01 called with v_min = v_max raises ValueError.
C7_DegenerateRangeRaises ==
  (Scaled /\ sc_args.v_min = sc_args.v_max) => err = "ValueError"

\* x is the float (v - v_min) / (v_max - v_min), for v_min # v_max
IsLinearMap(x, v, v_min, v_max) ==
  CASE v.k = "nan" -> x = NaN
    [] v.k = "inf" -> x = Inf(v.n * Sign(v_max - v_min))
    [] OTHER -> /\ x.k = "num"
                /\ x.n * (v_max - v_min) * v.d = (v.n - v_min * v.d) * x.d

---------------------------------------------------------------------------
(* Properties of the sweep, checked under SpecScan.                        *)

ScanAngles == {-1, 0, 1}

\* An engine that holds the geometry and the grid of the script and has
\* served no call.
ScriptEngine ==
  [pos_sensor |-> Some(pos_usa), wavelength |-> None,
   dir_grid |-> Some(SphereVerts(180, 360)), steer_vecs |-> Missing,
   src |-> Missing, pattern_tx |-> Missing]

\* What a direct call of the engine for the command (az, el) yields: the
\* normalized pattern and src.
DirectCall ==
  [az \in ScanAngles |-> [el \in ScanAngles |->
     LET angs == azel_to_thetaphi(az, el)
         r == Directivity(ScriptEngine, script_wavelength, angs[1], angs[2])
         bp == Val(r.pattern_tx)
         db == [m \in 1..Len(bp) |-> Decibel(bp[m], nside * nside)]
     IN <<scale_to_01(db, 0 - range_db, 0, TRUE), Val(r.src)>>]]

\* C4: the sweep collects one result per pass, elevation outer and azimuth
\* inner: after i full rows and j passes of the next one there are
\* i * A + j entries, entry e * A + a (from 0) is what a direct call for
\* (az[a], el[e]) yields, at every moment after it was collected, and the
\* finished sweep holds E * A entries.
C4_SweepRowMajor ==
  LET A == Len(az_scan)
      E == Len(el_scan)
      n == Len(beamscan.bp)
  IN /\ Len(beamscan.src) = n /\ Len(beamscan.verts) = n
     /\ pc = "scan" => n = i * A + j
     /\ pc = "plotted" => n = E * A
     /\ \A k \in 1..n :
          LET d == DirectCall[az_scan[((k - 1) % A) + 1]][el_scan[((k - 1) \div A) + 1]]
          IN beamscan.bp[k] = d[1] /\ beamscan.src[k] = d[2]

\* The finished 5 x 5 sweep: 25 entries, the first rows not all alike.
C4_Witness ==
  /\ pc = "plotted"
  /\ Len(az_scan) = 5 /\ Len(el_scan) = 5
  /\ Len(beamscan.bp) = 25
  /\ beamscan.src[1] # beamscan.src[2]
  /\ beamscan.bp[2] # beamscan.bp[3]

Boresight == <<0, 0, 3>>
SteeredToBoresight == Returned /\ last.theta = 0 /\ pos_sensor = Some(pos_usa)

\* C5 as stated: the 9 x 9 grid at half-wavelength pitch steered to
\* theta_ref = 0 has |pattern| / N = 1 at the sample equal to boresight and
\* less than 1 at every other sample of the grid.
C5_PeakAtBoresightOnly ==
  SteeredToBoresight
    => \A m \in 1..Len(Val(dir_grid)) :
         IF Val(dir_grid)[m] = Boresight
         THEN AbsSq(Val(pattern_tx)[m]) = Val(n_sensor) * Val(n_sensor)
         ELSE AbsSq(Val(pattern_tx)[m]) < Val(n_sensor) * Val(n_sensor)

\* C5 amended: |pattern| / N = 1 at boresight and at the sample opposite to
\* it, (0, 0, -1), the mirror image of boresight in the plane of the array,
\* and less than 1 at every other sample of the grid.
C5_PeakAtBoresightAndMirror ==
  SteeredToBoresight
    => \A m \in 1..Len(Val(dir_grid)) :
         IF Val(dir_grid)[m] \in {Boresight, <<0, 0, -3>>}
         THEN AbsSq(Val(pattern_tx)[m]) = Val(n_sensor) * Val(n_sensor)
         ELSE AbsSq(Val(pattern_tx)[m]) < Val(n_sensor) * Val(n_sensor)

C5_Witness ==
  /\ SteeredToBoresight
  /\ Val(n_sensor) = 81 /\ last.w = 2
  /\ Len(Val(dir_grid)) = 30
  /\ Val(dir_grid)[1] = Boresight
  /\ Val(pattern_tx)[1] = <<81, 0>>
  /\ AbsSq(Val(pattern_tx)[2]) < 81 * 81

====
